---- MODULE Spec2Model ----
(***************************************************************************)
(* State-machine model of the two publishers under src/01-data-generation: *)
(*   02_publisher_modulated.py                       (variant "simple")    *)
(*   05_publisher_modulated_users_Poisson_throttled.py (variant "poisson") *)
(*                                                                         *)
(* Fixed-point units (the code computes in floats):                        *)
(*   weights of a Distribution ........ thousandths                       *)
(*   modulation factors ............... thousandths                       *)
(*   modulated weights and their sum .. millionths                        *)
(*   hours of day, UTC offsets ........ hundredths of an hour             *)
(*   GLOBAL_TIMESTAMP_HOUR ............ thousandths of an hour            *)
(*   GLOBAL_TIMESTAMP_MICROS .......... milliseconds since the hard-coded *)
(*                                      resume point of line 458          *)
(*   GLOBAL_RATE_MAXIMUM .............. events per day (the code's value  *)
(*                                      is this number / 86400)           *)
(*   sleep durations .................. microseconds                      *)
(***************************************************************************)
EXTENDS Integers, Sequences, FiniteSets, TLC

VARIABLES
  variant,                 \* which of the two source files runs
  config,                  \* the loaded configuration document
  pc,                      \* position of the main thread
  event_data,              \* local of the delivery loop
  error,                   \* the exception travelling to / caught by a handler
  distribution,            \* config["country_infos"]["distribution"] (live dict)
  distribution_modulated,  \* config["country_infos"]["distribution_modulated"]
  USERS_BY_COUNTRY,        \* country -> number of user ids in its pool
  GLOBAL_RATE_MAXIMUM,
  GLOBAL_TIMESTAMP_MICROS,
  GLOBAL_TIMESTAMP_HOUR,
  published_count,
  failed_count,
  futures,                 \* one record per publish() call that returned
  ticks,                   \* generate_event calls made so far
  accepted,                \* ticks that passed the thinning step (all, in "simple")
  thinning,                \* how the thinning step of the latest tick went
  sleeps,                  \* time.sleep calls made so far
  sleep_duration,          \* argument of the latest time.sleep, -1 before the first
  stdout_final,            \* the final lines printed by the two except clauses
  stdout_failed,           \* number of "Failed to publish message" lines
  stdout_progress          \* the "Published N messages so far..." lines

vars ==
  << variant, config, pc, event_data, error, distribution, distribution_modulated,
     USERS_BY_COUNTRY, GLOBAL_RATE_MAXIMUM, GLOBAL_TIMESTAMP_MICROS,
     GLOBAL_TIMESTAMP_HOUR, published_count, failed_count, futures, ticks,
     accepted, thinning, sleeps, sleep_duration, stdout_final, stdout_failed,
     stdout_progress >>

(***************************************************************************)
(* Bounds of the model.                                                    *)
(***************************************************************************)
MaxEvents == 2
MaxTicks == 3

(***************************************************************************)
(* Module-level data of the Poisson variant.                               *)
(***************************************************************************)
HOURLY_MODULATION_FACTORS ==
  <<
    272, 251, 230, 210, 190,
    172, 155, 138, 123, 108,
    95, 83, 72, 62, 54,
    47, 41, 36, 33, 31,
    30, 31, 33, 36, 41,
    47, 54, 62, 72, 83,
    95, 108, 123, 138, 155,
    172, 190, 210, 230, 251,
    273, 295, 318, 341, 365,
    389, 414, 439, 464, 490,
    515, 540, 566, 591, 616,
    641, 665, 689, 712, 735,
    758, 779, 800, 820, 840,
    858, 875, 892, 907, 922,
    935, 947, 958, 968, 976,
    983, 989, 994, 997, 999,
    1000, 999, 997, 994, 989,
    983, 976, 968, 958, 947,
    935, 922, 907, 892, 875,
    858, 840, 820, 800, 779,
    758, 735, 712, 689, 665,
    641, 616, 591, 566, 540,
    515, 490, 464, 439, 414,
    389, 365, 341, 318, 295
  >>

(* 0.03 + 0.97 * (1 + cos((hour - 16) * 2*pi/24)) / 2 of the simple variant,  *)
(* tabulated in thousandths for |hour - 16| = 0.00, 0.01, ..., 12.00 hours    *)
(* (the cosine is even and has period 24).                                    *)
COSINE_MODULATION ==
  <<
    1000, 1000, 1000, 1000, 1000, 1000, 1000, 1000, 1000, 1000, 1000, 1000, 1000, 1000, 1000, 1000, 1000, 1000, 999, 999,
    999, 999, 999, 999, 999, 999, 999, 999, 999, 999, 999, 998, 998, 998, 998, 998, 998, 998, 998, 997,
    997, 997, 997, 997, 997, 997, 996, 996, 996, 996, 996, 996, 996, 995, 995, 995, 995, 995, 994, 994,
    994, 994, 994, 993, 993, 993, 993, 993, 992, 992, 992, 992, 991, 991, 991, 991, 990, 990, 990, 990,
    989, 989, 989, 989, 988, 988, 988, 987, 987, 987, 987, 986, 986, 986, 985, 985, 985, 984, 984, 984,
    983, 983, 983, 982, 982, 982, 981, 981, 981, 980, 980, 980, 979, 979, 979, 978, 978, 977, 977, 977,
    976, 976, 975, 975, 975, 974, 974, 973, 973, 973, 972, 972, 971, 971, 970, 970, 970, 969, 969, 968,
    968, 967, 967, 966, 966, 965, 965, 965, 964, 964, 963, 963, 962, 962, 961, 961, 960, 960, 959, 959,
    958, 958, 957, 957, 956, 955, 955, 954, 954, 953, 953, 952, 952, 951, 951, 950, 949, 949, 948, 948,
    947, 947, 946, 945, 945, 944, 944, 943, 942, 942, 941, 941, 940, 939, 939, 938, 938, 937, 936, 936,
    935, 934, 934, 933, 932, 932, 931, 931, 930, 929, 929, 928, 927, 927, 926, 925, 924, 924, 923, 922,
    922, 921, 920, 920, 919, 918, 918, 917, 916, 915, 915, 914, 913, 913, 912, 911, 910, 910, 909, 908,
    907, 907, 906, 905, 904, 904, 903, 902, 901, 901, 900, 899, 898, 897, 897, 896, 895, 894, 894, 893,
    892, 891, 890, 890, 889, 888, 887, 886, 885, 885, 884, 883, 882, 881, 880, 880, 879, 878, 877, 876,
    875, 875, 874, 873, 872, 871, 870, 869, 869, 868, 867, 866, 865, 864, 863, 862, 862, 861, 860, 859,
    858, 857, 856, 855, 854, 853, 853, 852, 851, 850, 849, 848, 847, 846, 845, 844, 843, 842, 841, 840,
    840, 839, 838, 837, 836, 835, 834, 833, 832, 831, 830, 829, 828, 827, 826, 825, 824, 823, 822, 821,
    820, 819, 818, 817, 816, 815, 814, 813, 812, 811, 810, 809, 808, 807, 806, 805, 804, 803, 802, 801,
    800, 799, 798, 797, 796, 795, 794, 793, 792, 791, 790, 789, 788, 787, 786, 784, 783, 782, 781, 780,
    779, 778, 777, 776, 775, 774, 773, 772, 771, 769, 768, 767, 766, 765, 764, 763, 762, 761, 760, 759,
    758, 756, 755, 754, 753, 752, 751, 750, 749, 748, 746, 745, 744, 743, 742, 741, 740, 739, 737, 736,
    735, 734, 733, 732, 731, 730, 728, 727, 726, 725, 724, 723, 722, 720, 719, 718, 717, 716, 715, 713,
    712, 711, 710, 709, 708, 706, 705, 704, 703, 702, 701, 699, 698, 697, 696, 695, 694, 692, 691, 690,
    689, 688, 686, 685, 684, 683, 682, 680, 679, 678, 677, 676, 675, 673, 672, 671, 670, 668, 667, 666,
    665, 664, 662, 661, 660, 659, 658, 656, 655, 654, 653, 652, 650, 649, 648, 647, 645, 644, 643, 642,
    641, 639, 638, 637, 636, 634, 633, 632, 631, 629, 628, 627, 626, 625, 623, 622, 621, 620, 618, 617,
    616, 615, 613, 612, 611, 610, 608, 607, 606, 605, 603, 602, 601, 600, 598, 597, 596, 595, 593, 592,
    591, 590, 588, 587, 586, 585, 583, 582, 581, 580, 578, 577, 576, 575, 573, 572, 571, 569, 568, 567,
    566, 564, 563, 562, 561, 559, 558, 557, 556, 554, 553, 552, 551, 549, 548, 547, 545, 544, 543, 542,
    540, 539, 538, 537, 535, 534, 533, 532, 530, 529, 528, 526, 525, 524, 523, 521, 520, 519, 518, 516,
    515, 514, 512, 511, 510, 509, 507, 506, 505, 504, 502, 501, 500, 498, 497, 496, 495, 493, 492, 491,
    490, 488, 487, 486, 485, 483, 482, 481, 479, 478, 477, 476, 474, 473, 472, 471, 469, 468, 467, 466,
    464, 463, 462, 461, 459, 458, 457, 455, 454, 453, 452, 450, 449, 448, 447, 445, 444, 443, 442, 440,
    439, 438, 437, 435, 434, 433, 432, 430, 429, 428, 427, 425, 424, 423, 422, 420, 419, 418, 417, 415,
    414, 413, 412, 410, 409, 408, 407, 405, 404, 403, 402, 401, 399, 398, 397, 396, 394, 393, 392, 391,
    389, 388, 387, 386, 385, 383, 382, 381, 380, 378, 377, 376, 375, 374, 372, 371, 370, 369, 368, 366,
    365, 364, 363, 362, 360, 359, 358, 357, 355, 354, 353, 352, 351, 350, 348, 347, 346, 345, 344, 342,
    341, 340, 339, 338, 336, 335, 334, 333, 332, 331, 329, 328, 327, 326, 325, 324, 322, 321, 320, 319,
    318, 317, 315, 314, 313, 312, 311, 310, 308, 307, 306, 305, 304, 303, 302, 300, 299, 298, 297, 296,
    295, 294, 293, 291, 290, 289, 288, 287, 286, 285, 284, 282, 281, 280, 279, 278, 277, 276, 275, 274,
    273, 271, 270, 269, 268, 267, 266, 265, 264, 263, 262, 261, 259, 258, 257, 256, 255, 254, 253, 252,
    251, 250, 249, 248, 247, 246, 244, 243, 242, 241, 240, 239, 238, 237, 236, 235, 234, 233, 232, 231,
    230, 229, 228, 227, 226, 225, 224, 223, 222, 221, 220, 219, 218, 217, 216, 215, 214, 213, 212, 211,
    210, 209, 208, 207, 206, 205, 204, 203, 202, 201, 200, 199, 198, 197, 196, 195, 194, 193, 192, 191,
    190, 190, 189, 188, 187, 186, 185, 184, 183, 182, 181, 180, 179, 178, 177, 177, 176, 175, 174, 173,
    172, 171, 170, 169, 168, 168, 167, 166, 165, 164, 163, 162, 161, 161, 160, 159, 158, 157, 156, 155,
    155, 154, 153, 152, 151, 150, 150, 149, 148, 147, 146, 145, 145, 144, 143, 142, 141, 140, 140, 139,
    138, 137, 136, 136, 135, 134, 133, 133, 132, 131, 130, 129, 129, 128, 127, 126, 126, 125, 124, 123,
    123, 122, 121, 120, 120, 119, 118, 117, 117, 116, 115, 115, 114, 113, 112, 112, 111, 110, 110, 109,
    108, 108, 107, 106, 106, 105, 104, 103, 103, 102, 101, 101, 100, 99, 99, 98, 98, 97, 96, 96,
    95, 94, 94, 93, 92, 92, 91, 91, 90, 89, 89, 88, 88, 87, 86, 86, 85, 85, 84, 83,
    83, 82, 82, 81, 81, 80, 79, 79, 78, 78, 77, 77, 76, 76, 75, 75, 74, 73, 73, 72,
    72, 71, 71, 70, 70, 69, 69, 68, 68, 67, 67, 66, 66, 65, 65, 65, 64, 64, 63, 63,
    62, 62, 61, 61, 60, 60, 60, 59, 59, 58, 58, 57, 57, 57, 56, 56, 55, 55, 55, 54,
    54, 53, 53, 53, 52, 52, 51, 51, 51, 50, 50, 50, 49, 49, 49, 48, 48, 48, 47, 47,
    47, 46, 46, 46, 45, 45, 45, 44, 44, 44, 43, 43, 43, 43, 42, 42, 42, 41, 41, 41,
    41, 40, 40, 40, 40, 39, 39, 39, 39, 38, 38, 38, 38, 37, 37, 37, 37, 37, 36, 36,
    36, 36, 36, 35, 35, 35, 35, 35, 34, 34, 34, 34, 34, 34, 34, 33, 33, 33, 33, 33,
    33, 33, 32, 32, 32, 32, 32, 32, 32, 32, 31, 31, 31, 31, 31, 31, 31, 31, 31, 31,
    31, 31, 31, 30, 30, 30, 30, 30, 30, 30, 30, 30, 30, 30, 30, 30, 30, 30, 30, 30,
    30
  >>

(***************************************************************************)
(* Configuration documents (json.load of --config).  A Distribution is a   *)
(* function from its labels to weights; a Python dict iterates in          *)
(* insertion order, which is the order of KeyOrder here.                   *)
(***************************************************************************)
KeyOrder == << "US", "IR", "search", "phone" >>

EmptyDict == [k \in {} |-> 0]

BaseConfig ==
  [ distribution              |-> [c \in {"US", "IR"} |-> IF c = "US" THEN 1000 ELSE 2000],
    timezone                  |-> [c \in {"US", "IR"} |-> IF c = "US" THEN -500 ELSE 350],
    event_type                |-> [l \in {"search"} |-> 1000],
    device_type               |-> [l \in {"phone"} |-> 1000],
    events_per_second         |-> 0,
    randomness_factor         |-> 2,       \* tenths
    users_population_fraction |-> 1000,    \* thousandths
    gke_replicas_factor       |-> 1,
    user_interactions_per_day |-> 172800 ]

Configs ==
  { BaseConfig,
    \* the per-user rate of the source's defaults, paced at 10 events/s
    [BaseConfig EXCEPT !.user_interactions_per_day = 57,
                       !.events_per_second = 10,
                       !.randomness_factor = 15],
    \* IR computes to int(0.5) = 0 users and has no UTC offset
    [BaseConfig EXCEPT !.distribution = [c \in {"US", "IR"} |-> IF c = "US" THEN 2000 ELSE 1000],
                       !.timezone = [c \in {"US"} |-> -500],
                       !.users_population_fraction = 500],
    \* IR keeps users and has no UTC offset
    [BaseConfig EXCEPT !.timezone = [c \in {"US"} |-> -500]],
    \* empty event-type Distribution
    [BaseConfig EXCEPT !.event_type = EmptyDict],
    \* empty event-type Distribution, and IR has no UTC offset
    [BaseConfig EXCEPT !.event_type = EmptyDict,
                       !.timezone = [c \in {"US"} |-> -500]],
    \* an event-type Distribution whose only weight is 0.0
    [BaseConfig EXCEPT !.event_type = [l \in {"search"} |-> 0]],
    \* base_weight 0.001, fraction 0.001, 10 replicas: nobody left
    [BaseConfig EXCEPT !.distribution = [c \in {"US"} |-> 1],
                       !.users_population_fraction = 1,
                       !.gke_replicas_factor = 10] }

Variants == {"simple", "poisson"}

(***************************************************************************)
(* Values drawn from the random source and from the wall clock.            *)
(***************************************************************************)
\* random.expovariate(rate): inter-arrival gaps, in thousandths of an hour
Gaps == {7, 4000}
\* random.random(), in quarters: 0.0, 0.25, 0.5, 0.75
Uniforms == 0 .. 3
\* get_current_hour() of the simple variant, in tenths of an hour
WallClockHours == {40, 160}
\* fake.iso8601() of the simple variant, as seconds since the epoch
IsoDates == {631152000}
\* random.uniform(-randomness, randomness) takes the two ends and the middle
Jitters(randomness) == {0 - randomness, 0, randomness}

(***************************************************************************)
(* Dict helpers.                                                           *)
(***************************************************************************)
Keys(d) == SelectSeq(KeyOrder, LAMBDA k : k \in DOMAIN d)

Put(d, k, v) == [x \in (DOMAIN d) \cup {k} |-> IF x = k THEN v ELSE d[x]]

RECURSIVE SumOver(_, _)
SumOver(d, keys) ==
  IF keys = {} THEN 0
  ELSE LET k == CHOOSE x \in keys : TRUE
       IN d[k] + SumOver(d, keys \ {k})

Total(d) == SumOver(d, DOMAIN d)

Max(a, b) == IF a > b THEN a ELSE b

(***************************************************************************)
(* user_daily_activity_pattern, hour in hundredths of an hour.             *)
(***************************************************************************)
\* 05: HOURLY_MODULATION_FACTORS[int((hour % 24) * 5)]
user_daily_activity_pattern(hour) ==
  HOURLY_MODULATION_FACTORS[(((hour % 2400) * 5) \div 100) + 1]

\* 02: 0.03 + 0.97 * (1 + math.cos((hour - 16) * (2 * math.pi / 24))) / 2
user_daily_activity_pattern_continuous(hour) ==
  LET d == (hour - 1600) % 2400
  IN COSINE_MODULATION[(IF d > 1200 THEN 2400 - d ELSE d) + 1]

(***************************************************************************)
(* generate_time_modulated_weights.                                        *)
(***************************************************************************)
\* the for loop of 05, lines 116-119, from the i-th key on; a country without
\* a UTC offset raises KeyError and leaves the dict as far as it was written
RECURSIVE modulate_from(_, _, _, _, _, _)
modulate_from(i, keys, dist, tz, current_hour, acc) ==
  IF i > Len(keys) THEN acc
  ELSE IF keys[i] \notin DOMAIN tz THEN [acc EXCEPT !.raised = "KeyError"]
  ELSE LET w == dist[keys[i]] * user_daily_activity_pattern(current_hour + tz[keys[i]])
       IN modulate_from(i + 1, keys, dist, tz, current_hour,
                        [ modulated |-> Put(acc.modulated, keys[i], w),
                          sum       |-> acc.sum + w,
                          raised    |-> "none" ])

\* (mutant) country_timezone.get(country, 0) in place of country_timezone[country]
generate_time_modulated_weights_get(dist, tz, modulated, hour_milli) ==
  modulate_from(1, Keys(dist), dist,
                [c \in DOMAIN dist |-> IF c \in DOMAIN tz THEN tz[c] ELSE 0],
                (hour_milli + 5) \div 10,
                [modulated |-> modulated, sum |-> 0, raised |-> "none"])

\* 05: current_hour = round(GLOBAL_TIMESTAMP_HOUR, 2)
generate_time_modulated_weights(dist, tz, modulated, hour_milli) ==
  modulate_from(1, Keys(dist), dist, tz, (hour_milli + 5) \div 10,
                [modulated |-> modulated, sum |-> 0, raised |-> "none"])

\* 02: a fresh dict per call, hour from the wall clock (tenths of an hour)
generate_time_modulated_weights_simple(dist, tz, now) ==
  IF \E c \in DOMAIN dist : c \notin DOMAIN tz
    THEN [modulated |-> EmptyDict, raised |-> "KeyError"]
    ELSE [ modulated |-> [c \in DOMAIN dist |->
                            dist[c] * user_daily_activity_pattern_continuous(now * 10 + tz[c])],
           raised    |-> "none" ]

(***************************************************************************)
(* get_weighted_choice: the set of values one call can produce.            *)
(* An empty dict raises ValueError (line 146).  random.choices never picks *)
(* a label of weight 0 while some weight is positive; when all weights are *)
(* 0 it raises ValueError on Python >= 3.9 and returns the last label on   *)
(* older interpreters.                                                     *)
(***************************************************************************)
\* (mutant) a draw that can return a label of weight 0
get_weighted_choice_uniform(d) ==
  IF DOMAIN d = {} THEN {"ValueError"} ELSE DOMAIN d

get_weighted_choice(d) ==
  IF DOMAIN d = {} THEN {"ValueError"}
  ELSE IF Total(d) = 0 THEN {"ValueError", Keys(d)[Len(Keys(d))]}
  ELSE {k \in DOMAIN d : d[k] > 0}

(***************************************************************************)
(* Startup of the Poisson variant (main, lines 427-459).                   *)
(***************************************************************************)
\* int(weight * users_population_fraction / gke_replicas_factor)
n_users_in_country(cfg, weight) ==
  (weight * cfg.users_population_fraction) \div (1000000 * cfg.gke_replicas_factor)

\* the countries the loop of lines 442-451 keeps
KeptCountries(cfg) ==
  {c \in DOMAIN cfg.distribution : n_users_in_country(cfg, cfg.distribution[c]) # 0}

\* (mutant) startup without the del of line 446
DistributionWithoutDel(cfg) == cfg.distribution

\* del country_distribution[country] for every other one (line 446)
DistributionAfterStartup(cfg) ==
  [c \in KeptCountries(cfg) |-> cfg.distribution[c]]

\* USERS_BY_COUNTRY[country] = [fake.uuid4() for _ in range(n)] (line 448)
UsersAfterStartup(cfg) ==
  [c \in KeptCountries(cfg) |-> n_users_in_country(cfg, cfg.distribution[c])]

\* GLOBAL_RATE_MAXIMUM += n * user_interactions_per_second (line 449), per day
RateAfterStartup(cfg) ==
  Total(UsersAfterStartup(cfg)) * cfg.user_interactions_per_day

\* GLOBAL_TIMESTAMP_HOUR = 6.233727986111111 (line 459), in thousandths
START_HOUR == 6234

(***************************************************************************)
(* generate_event: the set of outcomes one call can have.  An outcome is   *)
(* the value returned (an event, or None of the thinning step) or the      *)
(* exception raised, with the globals as the call leaves them.             *)
(***************************************************************************)
NoEvent ==
  [ kind |-> "unset", event_timestamp |-> 0, country_code |-> "", user_id |-> 0,
    event_type |-> "", device_type |-> "" ]

Event(ts, country, uid, et, dev) ==
  [ kind |-> "event", event_timestamp |-> ts, country_code |-> country,
    user_id |-> uid, event_type |-> et, device_type |-> dev ]

Outcome(ret, raised, thinned, micros, hour, modulated) ==
  [ ret |-> ret, raised |-> raised, thinning |-> thinned, micros |-> micros,
    hour |-> hour, modulated |-> modulated ]

\* 05, lines 203-237, once get_weighted_choice of line 202 has produced c
event_for(cfg, users, micros, hour, modulated, c) ==
  IF c = "ValueError"
    THEN {Outcome(NoEvent, "ValueError", "accepted", micros, hour, modulated)}
  ELSE IF c \notin DOMAIN users
    THEN {Outcome(NoEvent, "KeyError", "accepted", micros, hour, modulated)}
  ELSE IF users[c] < 1
    THEN {Outcome(NoEvent, "IndexError", "accepted", micros, hour, modulated)}
  ELSE { IF et = "ValueError" \/ dev = "ValueError"
           THEN Outcome(NoEvent, "ValueError", "accepted", micros, hour, modulated)
           ELSE Outcome(Event(micros, c, uid, et, dev), "none", "accepted",
                        micros, hour, modulated)
         : uid \in 1 .. users[c],
           et \in get_weighted_choice(cfg.event_type),
           dev \in get_weighted_choice(cfg.device_type) }

\* the thinning test of line 200: random.random() > sum / GLOBAL_RATE_MAXIMUM,
\* with u in quarters, sum in millionths and rate in events per day
thinning_rejects(u, sum, rate) == u * rate * 625 > sum * 216

\* (mutant) 05 with the clock advanced after the thinning step instead of
\* before it: a rejected tick leaves the clock where it was
generate_event_clock_after_thinning(cfg, dist, modulated, users, rate, micros, hour, dt, u) ==
  IF rate = 0
    THEN {Outcome(NoEvent, "ZeroDivisionError", "not_reached", micros, hour, modulated)}
  ELSE LET micros2 == micros + dt * 3600
           hour2 == hour + dt
           w == generate_time_modulated_weights(dist, cfg.timezone, modulated, hour2)
       IN IF w.raised # "none"
            THEN {Outcome(NoEvent, w.raised, "not_reached", micros2, hour2, w.modulated)}
          ELSE IF thinning_rejects(u, w.sum, rate)
            THEN {Outcome([NoEvent EXCEPT !.kind = "None"], "none", "rejected",
                          micros, hour, w.modulated)}
          ELSE UNION { event_for(cfg, users, micros2, hour2, w.modulated, c)
                       : c \in get_weighted_choice(w.modulated) }

\* 05, lines 184-237
generate_event(cfg, dist, modulated, users, rate, micros, hour, dt, u) ==
  IF rate = 0
    THEN {Outcome(NoEvent, "ZeroDivisionError", "not_reached", micros, hour, modulated)}
  ELSE LET micros2 == micros + dt * 3600
           hour2 == hour + dt
           w == generate_time_modulated_weights(dist, cfg.timezone, modulated, hour2)
       IN IF w.raised # "none"
            THEN {Outcome(NoEvent, w.raised, "not_reached", micros2, hour2, w.modulated)}
          ELSE IF thinning_rejects(u, w.sum, rate)
            THEN {Outcome([NoEvent EXCEPT !.kind = "None"], "none", "rejected",
                          micros2, hour2, w.modulated)}
          ELSE UNION { event_for(cfg, users, micros2, hour2, w.modulated, c)
                       : c \in get_weighted_choice(w.modulated) }

\* 02, lines 141-171; the globals of 05 do not exist there and stay as they are
generate_event_simple(cfg, dist, now, iso) ==
  LET w == generate_time_modulated_weights_simple(dist, cfg.timezone, now)
      out(ret, raised) == Outcome(ret, raised, "accepted", 0, 0, EmptyDict)
  IN { IF et = "ValueError" THEN out(NoEvent, "ValueError")
       ELSE IF w.raised # "none" THEN out(NoEvent, w.raised)
       ELSE IF dev = "ValueError" \/ c = "ValueError" THEN out(NoEvent, "ValueError")
       ELSE out(Event(iso, c, 0, et, dev), "none")
       : et \in get_weighted_choice(cfg.event_type),
         dev \in get_weighted_choice(cfg.device_type),
         c \in get_weighted_choice(w.modulated) }

(***************************************************************************)
(* The state machine.                                                      *)
(***************************************************************************)
\* positions of the main thread inside the while loop of publish_messages_batch
LoopPcs == {"generate", "publish", "add_done_callback", "callback", "sleep", "status"}

\* the DeliveryPipeline states of the spec, read off the position
PipelineState ==
  IF pc \in LoopPcs THEN "RUNNING"
  ELSE IF pc \in {"except_keyboard_interrupt", "except_exception"} THEN "STOPPING"
  ELSE IF pc = "stopped" THEN "STOPPED"
  ELSE IF pc = "main" THEN "STARTING"
  ELSE "CRASHED"

dispatched == Len(futures)

Init ==
  /\ variant \in Variants
  /\ config \in Configs
  /\ pc = "main"
  /\ event_data = NoEvent
  /\ error = "none"
  /\ distribution = config.distribution
  /\ distribution_modulated = EmptyDict
  /\ USERS_BY_COUNTRY = EmptyDict
  /\ GLOBAL_RATE_MAXIMUM = 0
  /\ GLOBAL_TIMESTAMP_MICROS = 0
  /\ GLOBAL_TIMESTAMP_HOUR = 0
  /\ published_count = 0
  /\ failed_count = 0
  /\ futures = << >>
  /\ ticks = 0
  /\ accepted = 0
  /\ thinning = "none"
  /\ sleeps = 0
  /\ sleep_duration = -1
  /\ stdout_final = << >>
  /\ stdout_failed = 0
  /\ stdout_progress = << >>

\* main up to the call of publish_messages_batch and that function up to its try
main ==
  /\ pc = "main"
  /\ pc' = "generate"
  /\ IF variant = "poisson"
       THEN /\ distribution_modulated' = [c \in DOMAIN config.distribution |-> 0]
            /\ distribution' = DistributionAfterStartup(config)
            /\ USERS_BY_COUNTRY' = UsersAfterStartup(config)
            /\ GLOBAL_RATE_MAXIMUM' = RateAfterStartup(config)
            /\ GLOBAL_TIMESTAMP_MICROS' = 0
            /\ GLOBAL_TIMESTAMP_HOUR' = START_HOUR
       ELSE UNCHANGED << distribution_modulated, distribution, USERS_BY_COUNTRY,
                         GLOBAL_RATE_MAXIMUM, GLOBAL_TIMESTAMP_MICROS,
                         GLOBAL_TIMESTAMP_HOUR >>
  /\ UNCHANGED << variant, config, event_data, error, published_count, failed_count,
                  futures, ticks, accepted, thinning, sleeps, sleep_duration, stdout_final,
                  stdout_failed, stdout_progress >>

\* the except clause of lines 332-336 (262-266) an exception raised inside the
\* try lands in; KeyboardInterrupt is no Exception, every other one here is
Exceptions ==
  {"ValueError", "KeyError", "IndexError", "ZeroDivisionError", "PublishError"}

handler_for(e) ==
  IF e = "KeyboardInterrupt" THEN "except_keyboard_interrupt"
  ELSE IF e \in Exceptions THEN "except_exception"
  ELSE "propagated"

\* (mutant) the loop without lines 310-311: None goes on to publish
TakeOutcomeNoContinue(o) ==
  /\ ticks' = ticks + 1
  /\ accepted' = IF o.thinning = "accepted" THEN accepted + 1 ELSE accepted
  /\ thinning' = o.thinning
  /\ IF o.raised # "none"
       THEN /\ pc' = handler_for(o.raised)
            /\ error' = o.raised
            /\ UNCHANGED event_data
       ELSE /\ event_data' = o.ret
            /\ pc' = "publish"
            /\ UNCHANGED error

\* what the loop does with one outcome of generate_event (lines 309-311 of 05,
\* 243 of 02): None continues, an event goes on to publish, an exception is
\* caught by `except Exception`
TakeOutcome(o) ==
  /\ ticks' = ticks + 1
  /\ accepted' = IF o.thinning = "accepted" THEN accepted + 1 ELSE accepted
  /\ thinning' = o.thinning
  /\ IF o.raised # "none"
       THEN /\ pc' = handler_for(o.raised)
            /\ error' = o.raised
            /\ UNCHANGED event_data
       ELSE /\ event_data' = o.ret
            /\ pc' = IF o.ret.kind = "None" THEN "generate" ELSE "publish"
            /\ UNCHANGED error

GenerateEventPoisson ==
  /\ variant = "poisson"
  /\ pc = "generate"
  /\ ticks < MaxTicks
  /\ dispatched < MaxEvents
  /\ \E dt \in Gaps, u \in Uniforms :
       \E o \in generate_event(config, distribution, distribution_modulated,
                               USERS_BY_COUNTRY, GLOBAL_RATE_MAXIMUM,
                               GLOBAL_TIMESTAMP_MICROS, GLOBAL_TIMESTAMP_HOUR, dt, u) :
         /\ TakeOutcome(o)
         /\ GLOBAL_TIMESTAMP_MICROS' = o.micros
         /\ GLOBAL_TIMESTAMP_HOUR' = o.hour
         /\ distribution_modulated' = o.modulated
  /\ UNCHANGED << variant, config, distribution, USERS_BY_COUNTRY, GLOBAL_RATE_MAXIMUM,
                  published_count, failed_count, futures, sleeps, sleep_duration,
                  stdout_final, stdout_failed, stdout_progress >>

GenerateEventSimple ==
  /\ variant = "simple"
  /\ pc = "generate"
  /\ ticks < MaxTicks
  /\ dispatched < MaxEvents
  /\ \E now \in WallClockHours, iso \in IsoDates :
       \E o \in generate_event_simple(config, distribution, now, iso) :
         TakeOutcome(o)
  /\ UNCHANGED << variant, config, distribution, distribution_modulated,
                  USERS_BY_COUNTRY, GLOBAL_RATE_MAXIMUM, GLOBAL_TIMESTAMP_MICROS,
                  GLOBAL_TIMESTAMP_HOUR, published_count, failed_count, futures,
                  sleeps, sleep_duration, stdout_final, stdout_failed,
                  stdout_progress >>

(***************************************************************************)
(* Dispatch: publisher.publish and future.add_done_callback.               *)
(***************************************************************************)
\* the future of the event in event_data; of the message only the
\* event_timestamp is kept
NewFuture ==
  [ result |-> "pending", registered |-> FALSE, cb |-> "idle", tmp |-> 0,
    event_timestamp |-> event_data.event_timestamp ]

\* line 318 (250): publish returns a future
Publish ==
  /\ pc = "publish"
  /\ futures' = Append(futures, NewFuture)
  /\ pc' = "add_done_callback"
  /\ UNCHANGED << variant, config, event_data, error, distribution,
                  distribution_modulated, USERS_BY_COUNTRY, GLOBAL_RATE_MAXIMUM,
                  GLOBAL_TIMESTAMP_MICROS, GLOBAL_TIMESTAMP_HOUR, published_count,
                  failed_count, ticks, accepted, thinning, sleeps, sleep_duration,
                  stdout_final, stdout_failed, stdout_progress >>

\* line 318 (250): publish raises instead; `except Exception` catches it
PublishRaises ==
  /\ pc = "publish"
  /\ pc' = handler_for("PublishError")
  /\ error' = "PublishError"
  /\ UNCHANGED << variant, config, event_data, distribution, distribution_modulated,
                  USERS_BY_COUNTRY, GLOBAL_RATE_MAXIMUM, GLOBAL_TIMESTAMP_MICROS,
                  GLOBAL_TIMESTAMP_HOUR, published_count, failed_count, futures,
                  ticks, accepted, thinning, sleeps, sleep_duration, stdout_final,
                  stdout_failed, stdout_progress >>

\* line 319 (251): a future that is already resolved runs the callback at once,
\* on the main thread; otherwise the callback is stored
AddDoneCallback ==
  /\ pc = "add_done_callback"
  /\ futures' = [futures EXCEPT ![Len(futures)].registered = TRUE]
  /\ pc' = IF futures[Len(futures)].result = "pending" THEN "sleep" ELSE "callback"
  /\ UNCHANGED << variant, config, event_data, error, distribution,
                  distribution_modulated, USERS_BY_COUNTRY, GLOBAL_RATE_MAXIMUM,
                  GLOBAL_TIMESTAMP_MICROS, GLOBAL_TIMESTAMP_HOUR, published_count,
                  failed_count, ticks, accepted, thinning, sleeps, sleep_duration,
                  stdout_final, stdout_failed, stdout_progress >>

\* the transport resolves a future, on a thread of its own
TransportResolve(i, result) ==
  /\ futures[i].result = "pending"
  /\ futures' = [futures EXCEPT ![i].result = result]
  /\ UNCHANGED << variant, config, pc, event_data, error, distribution,
                  distribution_modulated, USERS_BY_COUNTRY, GLOBAL_RATE_MAXIMUM,
                  GLOBAL_TIMESTAMP_MICROS, GLOBAL_TIMESTAMP_HOUR, published_count,
                  failed_count, ticks, accepted, thinning, sleeps, sleep_duration,
                  stdout_final, stdout_failed, stdout_progress >>

(***************************************************************************)
(* callback (lines 287-304 of 05, 221-238 of 02).  `count += 1` on a       *)
(* nonlocal is a load, an add and a store; the code takes no lock, so      *)
(* another thread may run between the load and the store.                  *)
(***************************************************************************)
\* the callback of the latest future is running on the main thread
OnMainThread(i) == pc = "callback" /\ i = Len(futures)

\* future.result() and the load of the counter it selects
CallbackLoad(i) ==
  /\ futures[i].registered
  /\ futures[i].result # "pending"
  /\ futures[i].cb = "idle"
  /\ futures' = [futures EXCEPT ![i].cb = "loaded",
                                ![i].tmp = IF futures[i].result = "ok"
                                             THEN published_count ELSE failed_count]
  /\ UNCHANGED << variant, config, pc, event_data, error, distribution,
                  distribution_modulated, USERS_BY_COUNTRY, GLOBAL_RATE_MAXIMUM,
                  GLOBAL_TIMESTAMP_MICROS, GLOBAL_TIMESTAMP_HOUR, published_count,
                  failed_count, ticks, accepted, thinning, sleeps, sleep_duration,
                  stdout_final, stdout_failed, stdout_progress >>

\* the value the store writes
Incremented(loaded) == loaded + 1

\* (mutant) a callback without the try: the failure escapes it
CallbackStoreRaises(i) ==
  /\ futures[i].cb = "loaded"
  /\ futures' = [futures EXCEPT ![i].cb = "done", ![i].tmp = 0]
  /\ IF futures[i].result = "ok"
       THEN /\ published_count' = Incremented(futures[i].tmp)
            /\ pc' = IF OnMainThread(i) THEN "sleep" ELSE pc
            /\ UNCHANGED << failed_count, stdout_failed, error >>
       ELSE /\ pc' = IF pc \in LoopPcs THEN "except_exception" ELSE pc
            /\ error' = IF pc \in LoopPcs THEN "PublishError" ELSE error
            /\ UNCHANGED << published_count, failed_count, stdout_failed >>
  /\ UNCHANGED << variant, config, event_data, distribution,
                  distribution_modulated, USERS_BY_COUNTRY, GLOBAL_RATE_MAXIMUM,
                  GLOBAL_TIMESTAMP_MICROS, GLOBAL_TIMESTAMP_HOUR, ticks, accepted,
                  thinning, sleeps, sleep_duration, stdout_final, stdout_progress >>

\* the store, and for a failure the print of line 304
CallbackStore(i) ==
  /\ futures[i].cb = "loaded"
  /\ futures' = [futures EXCEPT ![i].cb = "done", ![i].tmp = 0]
  /\ IF futures[i].result = "ok"
       THEN /\ published_count' = Incremented(futures[i].tmp)
            /\ UNCHANGED << failed_count, stdout_failed >>
       ELSE /\ failed_count' = Incremented(futures[i].tmp)
            /\ stdout_failed' = stdout_failed + 1
            /\ UNCHANGED published_count
  /\ pc' = IF OnMainThread(i) THEN "sleep" ELSE pc
  /\ UNCHANGED << variant, config, event_data, error, distribution,
                  distribution_modulated, USERS_BY_COUNTRY, GLOBAL_RATE_MAXIMUM,
                  GLOBAL_TIMESTAMP_MICROS, GLOBAL_TIMESTAMP_HOUR, ticks, accepted, thinning,
                  sleeps, sleep_duration, stdout_final, stdout_progress >>

(***************************************************************************)
(* Pacing and the status line.                                             *)
(***************************************************************************)
\* (1 / base_rate) * (1 + jitter), jitter in tenths, result in microseconds
jittered_sleep(base_rate, jitter) ==
  ((1000000 \div base_rate) * (10 + jitter)) \div 10

\* (mutant) 05 without the else branch of lines 325-326
sleep_durations_without_else(v, cfg) ==
  IF cfg.events_per_second > 0
    THEN { Max(0, jittered_sleep(cfg.events_per_second, j))
           : j \in Jitters(cfg.randomness_factor) }
    ELSE {}

\* the arguments time.sleep can get at lines 322-326 (254-256); {} is no call
sleep_durations(v, cfg) ==
  IF cfg.events_per_second > 0
    THEN { Max(0, jittered_sleep(cfg.events_per_second, j))
           : j \in Jitters(cfg.randomness_factor) }
  ELSE IF v = "poisson" THEN {2250}
  ELSE {}

Sleep ==
  /\ pc = "sleep"
  /\ pc' = "status"
  /\ IF sleep_durations(variant, config) = {}
       THEN UNCHANGED << sleeps, sleep_duration >>
       ELSE /\ sleep_duration' \in sleep_durations(variant, config)
            /\ sleeps' = sleeps + 1
  /\ UNCHANGED << variant, config, event_data, error, distribution,
                  distribution_modulated, USERS_BY_COUNTRY, GLOBAL_RATE_MAXIMUM,
                  GLOBAL_TIMESTAMP_MICROS, GLOBAL_TIMESTAMP_HOUR, published_count,
                  failed_count, futures, ticks, accepted, thinning, stdout_final,
                  stdout_failed, stdout_progress >>

\* published_count % 100_000 (line 329 of 05), published_count % 1000 (259 of 02);
\* both periods are divided by 1000 here, which puts the first milestones of
\* the simple variant within MaxEvents publications
status_every(v) == (IF v = "poisson" THEN 100000 ELSE 1000) \div 1000

Status ==
  /\ pc = "status"
  /\ pc' = "generate"
  /\ stdout_progress' =
       IF published_count > 0 /\ published_count % status_every(variant) = 0
         THEN Append(stdout_progress, published_count)
         ELSE stdout_progress
  /\ UNCHANGED << variant, config, event_data, error, distribution,
                  distribution_modulated, USERS_BY_COUNTRY, GLOBAL_RATE_MAXIMUM,
                  GLOBAL_TIMESTAMP_MICROS, GLOBAL_TIMESTAMP_HOUR, published_count,
                  failed_count, futures, ticks, accepted, thinning, sleeps, sleep_duration,
                  stdout_final, stdout_failed >>

(***************************************************************************)
(* The two except clauses.                                                 *)
(***************************************************************************)
\* Ctrl+C: KeyboardInterrupt is raised in the main thread wherever it is in the
\* loop; a callback it was running there is abandoned
KeyboardInterrupt ==
  /\ pc \in LoopPcs
  /\ pc' = handler_for("KeyboardInterrupt")
  /\ error' = "KeyboardInterrupt"
  /\ futures' = IF pc = "callback" /\ futures[Len(futures)].cb # "done"
                  THEN [futures EXCEPT ![Len(futures)].cb = "abandoned", ![Len(futures)].tmp = 0]
                  ELSE futures
  /\ UNCHANGED << variant, config, event_data, distribution, distribution_modulated,
                  USERS_BY_COUNTRY, GLOBAL_RATE_MAXIMUM, GLOBAL_TIMESTAMP_MICROS,
                  GLOBAL_TIMESTAMP_HOUR, published_count, failed_count, ticks,
                  accepted, thinning, sleeps, sleep_duration, stdout_final, stdout_failed,
                  stdout_progress >>

FinalLine(kind) ==
  [ kind |-> kind, error |-> error, published |-> published_count,
    failed |-> failed_count ]

\* (mutant) the summary is printed and the loop is entered again
ExceptKeyboardInterruptResumes ==
  /\ pc = "except_keyboard_interrupt"
  /\ stdout_final' = Append(stdout_final, FinalLine("stopped_by_user"))
  /\ pc' = "generate"
  /\ UNCHANGED << variant, config, event_data, error, distribution,
                  distribution_modulated, USERS_BY_COUNTRY, GLOBAL_RATE_MAXIMUM,
                  GLOBAL_TIMESTAMP_MICROS, GLOBAL_TIMESTAMP_HOUR, published_count,
                  failed_count, futures, ticks, accepted, thinning, sleeps,
                  sleep_duration, stdout_failed, stdout_progress >>

\* lines 332-333 (262-263)
ExceptKeyboardInterrupt ==
  /\ pc = "except_keyboard_interrupt"
  /\ stdout_final' = Append(stdout_final, FinalLine("stopped_by_user"))
  /\ pc' = "stopped"
  /\ UNCHANGED << variant, config, event_data, error, distribution,
                  distribution_modulated, USERS_BY_COUNTRY, GLOBAL_RATE_MAXIMUM,
                  GLOBAL_TIMESTAMP_MICROS, GLOBAL_TIMESTAMP_HOUR, published_count,
                  failed_count, futures, ticks, accepted, thinning, sleeps, sleep_duration,
                  stdout_failed, stdout_progress >>

\* (mutant) the handler retries
after_exception_retry == "generate"

\* where the handler of `except Exception` leaves the main thread
after_exception == "stopped"

\* lines 334-336 (264-266)
ExceptException ==
  /\ pc = "except_exception"
  /\ stdout_final' = Append(stdout_final, FinalLine("unexpected_error"))
  /\ pc' = after_exception
  /\ UNCHANGED << variant, config, event_data, error, distribution,
                  distribution_modulated, USERS_BY_COUNTRY, GLOBAL_RATE_MAXIMUM,
                  GLOBAL_TIMESTAMP_MICROS, GLOBAL_TIMESTAMP_HOUR, published_count,
                  failed_count, futures, ticks, accepted, thinning, sleeps, sleep_duration,
                  stdout_failed, stdout_progress >>

Next ==
  \/ main
  \/ GenerateEventPoisson
  \/ GenerateEventSimple
  \/ Publish
  \/ PublishRaises
  \/ AddDoneCallback
  \/ \E i \in 1 .. Len(futures) : TransportResolve(i, "ok")
  \/ \E i \in 1 .. Len(futures) : TransportResolve(i, "err")
  \/ \E i \in 1 .. Len(futures) : CallbackLoad(i)
  \/ \E i \in 1 .. Len(futures) : CallbackStore(i)
  \/ Sleep
  \/ Status
  \/ KeyboardInterrupt
  \/ ExceptKeyboardInterrupt
  \/ ExceptException

Spec == Init /\ [][Next]_vars

(***************************************************************************)
(* Claims.                                                                 *)
(***************************************************************************)
\* the callback of future i completes in this step
Completes(i) == futures[i].cb = "loaded" /\ futures'[i].cb = "done"

\* C1: every completion of a dispatched event increments exactly one counter
\* by exactly one (published_count on success, failed_count on error) and
\* leaves the other one alone; so published_count + failed_count never exceeds
\* the number of events dispatched, and neither counter ever decreases.
C1_CompletionCountsOnce ==
  [][ /\ \A i \in 1 .. Len(futures) :
           Completes(i) =>
             IF futures[i].result = "ok"
               THEN /\ published_count' = published_count + 1
                    /\ failed_count' = failed_count
               ELSE /\ failed_count' = failed_count + 1
                    /\ published_count' = published_count
      /\ published_count' + failed_count' <= Len(futures')
      /\ published_count' >= published_count
      /\ failed_count' >= failed_count ]_vars

\* C2: the tally is synchronized, no increment is lost: once the callback of
\* every dispatched event has completed, published_count + failed_count is the
\* number of events dispatched.
C2_NoLostIncrement ==
  (\A i \in 1 .. Len(futures) : futures[i].cb = "done")
    => published_count + failed_count = Len(futures)

\* the thinning step of the Poisson variant rejects the tick in this step
RejectedTick == variant = "poisson" /\ ticks' = ticks + 1 /\ thinning' = "rejected"

\* an event is handed to the transport in this step
Dispatches == Len(futures') = Len(futures) + 1

\* what C3 says of a rejected tick, and that only an accepted tick is dispatched
C3_RejectedTickIsSkipped ==
  /\ RejectedTick =>
       /\ event_data'.kind = "None"
       /\ futures' = futures
       /\ sleeps' = sleeps /\ sleep_duration' = sleep_duration
       /\ published_count' = published_count /\ failed_count' = failed_count
       /\ pc' = "generate"
  /\ (variant = "poisson" /\ Dispatches) =>
       /\ thinning = "accepted" /\ event_data.kind = "event"
       /\ accepted = dispatched + 1

\* C3 (as amended): in the Poisson variant a rejected tick produces None, and
\* the loop then dispatches nothing, does not sleep, leaves both counters alone
\* and starts the next tick at once.  An event is dispatched in an iteration
\* only if its tick was accepted, and every iteration that runs to its end
\* dispatches exactly when its tick was accepted; an accepted tick whose
\* iteration is ended by an exception or by the stop signal is not dispatched.
C3_RejectedTickNoEvent ==
  [][ /\ C3_RejectedTickIsSkipped
      /\ variant = "poisson" =>
           /\ dispatched' <= accepted' /\ accepted' <= dispatched' + 1
           /\ sleeps' <= dispatched'
           /\ pc' = "generate" => accepted' = dispatched' ]_vars

\* C3 witness: a tick was rejected after an earlier one was dispatched
C3_Witness ==
  /\ variant = "poisson" /\ thinning = "rejected" /\ pc = "generate"
  /\ dispatched >= 1 /\ ticks > accepted

\* C3 (as stated): ..., an event is dispatched in an iteration if and only if
\* that iteration's tick was accepted: whenever no iteration is under way,
\* as many events have been dispatched as ticks were accepted.
C3_DispatchedIffAccepted ==
  [][ /\ C3_RejectedTickIsSkipped
      /\ (variant = "poisson" /\ pc' \in {"generate", "stopped"})
           => accepted' = dispatched' ]_vars

\* the loop neither generates nor dispatches in this step
NoNewEvent ==
  /\ ticks' = ticks /\ event_data' = event_data
  /\ Len(futures') = Len(futures)
  /\ \A i \in 1 .. Len(futures) : futures'[i].registered = futures[i].registered

\* C4: the pipeline goes RUNNING -> STOPPING -> STOPPED: once the stop signal
\* (KeyboardInterrupt) has been received while RUNNING no further event is
\* generated or dispatched, the final summary of the two counts is printed
\* exactly once, only then is STOPPED reached, and STOPPED is terminal.
C4_StopSequence ==
  [][ /\ PipelineState' # PipelineState =>
           << PipelineState, PipelineState' >> \in
             { << "STARTING", "RUNNING" >>, << "RUNNING", "STOPPING" >>,
               << "STOPPING", "STOPPED" >> }
      /\ (PipelineState = "RUNNING" /\ error' = "KeyboardInterrupt") =>
           /\ pc' = "except_keyboard_interrupt"
           /\ NoNewEvent
           /\ stdout_final' = << >>
      /\ pc = "except_keyboard_interrupt" =>
           /\ NoNewEvent
           /\ IF pc' = pc
                THEN stdout_final' = << >>
                ELSE /\ pc' = "stopped"
                     /\ stdout_final' =
                          << [ kind |-> "stopped_by_user", error |-> "KeyboardInterrupt",
                               published |-> published_count, failed |-> failed_count ] >>
      /\ pc = "stopped" =>
           /\ pc' = "stopped"
           /\ NoNewEvent
           /\ stdout_final' = stdout_final ]_vars

\* C4 witness: stopped by the user after events were dispatched
C4_Witness ==
  /\ pc = "stopped" /\ error = "KeyboardInterrupt"
  /\ dispatched >= 2 /\ Len(stdout_final) = 1

\* C5: on an interrupt the outstanding completions are awaited before the
\* final tally is printed: the published and failed counts of the summary add
\* up to the number of events dispatched before the stop.
C5_SummaryCountsEveryDispatch ==
  \A k \in 1 .. Len(stdout_final) :
    stdout_final[k].kind = "stopped_by_user" =>
      stdout_final[k].published + stdout_final[k].failed = dispatched

\* C6: an unexpected error raised by event generation or by the publish call
\* inside the loop is caught, reported together with the current counts, and
\* moves the pipeline to STOPPED: no event is generated or dispatched after
\* it (no retry), and it does not propagate out of publish_messages_batch.
C6_UnexpectedErrorIsFatal ==
  [][ /\ (PipelineState = "RUNNING" /\ error' \notin {error, "KeyboardInterrupt"}) =>
           /\ pc \in {"generate", "publish"}
           /\ pc' = "except_exception"
           /\ Len(futures') = Len(futures)
      /\ pc = "except_exception" =>
           /\ NoNewEvent
           /\ pc' # pc =>
                /\ pc' = "stopped"
                /\ stdout_final' =
                     << [ kind |-> "unexpected_error", error |-> error,
                          published |-> published_count, failed |-> failed_count ] >>
      /\ (pc = "stopped" /\ error # "KeyboardInterrupt") =>
           pc' = "stopped" /\ NoNewEvent
      /\ PipelineState' # "CRASHED" ]_vars

\* C6 witness: the publish call of a later event raised and the loop is over
C6_Witness ==
  /\ pc = "stopped" /\ error = "PublishError" /\ dispatched >= 1
  /\ Len(stdout_final) = 1 /\ stdout_final[1].kind = "unexpected_error"

\* the transport resolves future i to an error in this step
FailsAsync(i) == futures[i].result = "pending" /\ futures'[i].result = "err"

\* the publish call raises in this step
FailsInPublish == pc = "publish" /\ error' = "PublishError"

\* a failed completion is counted by the callback and logged
FailureIsCounted ==
  /\ \A i \in 1 .. Len(futures) :
       (Completes(i) /\ futures[i].result = "err") =>
         /\ failed_count' = futures[i].tmp + 1
         /\ published_count' = published_count
         /\ stdout_failed' = stdout_failed + 1
         /\ PipelineState' = PipelineState
  /\ stdout_failed' =
       Cardinality({i \in 1 .. Len(futures') :
                      futures'[i].result = "err" /\ futures'[i].cb = "done"})

\* C7 (as amended): an asynchronous completion that resolves to an error is
\* never fatal: its callback adds one to the failed_count it loaded and logs
\* the failure once, and neither the resolution nor the callback moves the
\* pipeline out of RUNNING, so the loop goes on with the next events.  A
\* publish call that raises is not recovered: it is caught by `except
\* Exception` and ends the loop.
C7_AsyncFailureNotFatal ==
  [][ /\ FailureIsCounted
      /\ \A i \in 1 .. Len(futures) :
           FailsAsync(i) => PipelineState' = PipelineState /\ error' = error
      /\ FailsInPublish => pc' = "except_exception" ]_vars

\* C7 witness: a failure has been counted and logged and the loop is about to
\* dispatch a further event
C7_Witness ==
  /\ pc = "publish" /\ failed_count >= 1 /\ stdout_failed >= 1
  /\ \E i \in 1 .. Len(futures) : futures[i].result = "err" /\ futures[i].cb = "done"

\* C7 (as stated): however a single event's dispatch fails - the completion
\* resolving to an error or the publish call failing - the failure is counted
\* and logged and the pipeline stays RUNNING.
C7_DispatchFailureNeverFatal ==
  [][ /\ FailureIsCounted
      /\ ((\E i \in 1 .. Len(futures) : FailsAsync(i)) \/ FailsInPublish) =>
           PipelineState' = PipelineState ]_vars

\* the sum generate_time_modulated_weights returned on the latest tick
modulated_sum == SumOver(distribution_modulated, DOMAIN distribution)

\* C8: GLOBAL_RATE_MAXIMUM is an upper bound on the modulated sum, so that
\* the acceptance ratio of the thinning step never exceeds 1
\* (sum / 10^6 <= rate / 86400).
C8_RateIsUpperBound ==
  (variant = "poisson" /\ pc # "main") =>
    modulated_sum * 54 <= GLOBAL_RATE_MAXIMUM * 625

\* int(base_weight * users_population_fraction / gke_replicas_factor)
ExpectedUsers(c) ==
  (config.distribution[c] * config.users_population_fraction)
    \div (1000000 * config.gke_replicas_factor)

\* C9: after startup a country is in the active Distribution exactly if it is
\* in USERS_BY_COUNTRY: a country whose computed population is 0 is removed
\* from both, every other one keeps its weight and has a pool of exactly the
\* computed (>= 1) number of ids, and generation changes neither structure.
C9_PoolMatchesDistribution ==
  [][ variant = "poisson" =>
        /\ pc' # "main" =>
             /\ DOMAIN distribution' = DOMAIN USERS_BY_COUNTRY'
             /\ \A c \in DOMAIN config.distribution :
                  IF ExpectedUsers(c) = 0
                    THEN c \notin DOMAIN distribution'
                    ELSE /\ c \in DOMAIN distribution'
                         /\ distribution'[c] = config.distribution[c]
                         /\ USERS_BY_COUNTRY'[c] = ExpectedUsers(c)
                         /\ USERS_BY_COUNTRY'[c] >= 1
        /\ pc # "main" =>
             /\ distribution' = distribution
             /\ USERS_BY_COUNTRY' = USERS_BY_COUNTRY ]_vars

\* C9 witness: one country was dropped, one was kept, and events were generated
C9_Witness ==
  /\ variant = "poisson" /\ dispatched >= 1
  /\ DOMAIN distribution # {}
  /\ DOMAIN distribution # DOMAIN config.distribution

\* a country of the active Distribution has no UTC offset
MissingTimezoneEntry ==
  pc # "main" /\ \E c \in DOMAIN distribution : c \notin DOMAIN config.timezone

\* no tick got past generation, the first one ended in one of `errors`
FatalAtFirstUse(errors) ==
  /\ dispatched = 0 /\ event_data.kind = "unset" /\ ticks <= 1
  /\ ticks = 1 =>
       /\ error \in errors
       /\ pc \in {"except_exception", "stopped"}
       /\ pc = "stopped" =>
            /\ Len(stdout_final) = 1
            /\ stdout_final[1].kind = "unexpected_error"
            /\ stdout_final[1].error = error

DrawnDistributions == {config.event_type, config.device_type, distribution}

\* C11: get_weighted_choice fails with ValueError on an empty Distribution and
\* only there: on a non-empty one it returns one of its labels.  So a tick
\* that ended with ValueError drew from an empty Distribution.
C11_DrawFailsOnlyOnEmpty ==
  error = "ValueError" => \E d \in DrawnDistributions : DOMAIN d = {}

\* the local hours at which generate_time_modulated_weights of 05 evaluates
\* the modulator at the current value of the clock (lines 114-117)
EvaluatedHours ==
  { ((GLOBAL_TIMESTAMP_HOUR + 5) \div 10) + config.timezone[c]
    : c \in DOMAIN distribution \cap DOMAIN config.timezone }

\* |continuous - discretized| at hour h, in thousandths
ModulatorGap(h) ==
  LET a == user_daily_activity_pattern_continuous(h)
      b == user_daily_activity_pattern(h)
  IN IF a > b THEN a - b ELSE b - a

\* C12: the continuous modulator of 02 and the table lookup of 05 agree
\* within 0.01 (10 thousandths) at every hour of [0, 24): here, at every
\* local hour the running Poisson publisher looks the table up at.
C12_ModulatorsAgreeWithinTolerance ==
  (variant = "poisson" /\ pc # "main") =>
    \A h \in EvaluatedHours : ModulatorGap(h) <= 10

\* the main thread passes the pacing step of the loop
Paces == pc = "sleep" /\ pc' = "status"

\* (1 - r) / R and (1 + r) / R in microseconds, r in tenths
PacingLow(cfg) ==
  Max(0, ((10 - cfg.randomness_factor) * 100000) \div cfg.events_per_second)

PacingHigh(cfg) ==
  ((10 + cfg.randomness_factor) * 100000) \div cfg.events_per_second

\* the pacing step of a configured rate R > 0: one time.sleep, its argument
\* in [max(0, (1 - r)/R), (1 + r)/R]
PacedAtRate ==
  config.events_per_second > 0 =>
    /\ sleeps' = sleeps + 1
    /\ sleep_duration' >= PacingLow(config)
    /\ sleep_duration' <= PacingHigh(config)

PoissonTick ==
  /\ variant = "poisson"
  /\ ticks' = ticks + 1
  /\ thinning' \in {"accepted", "rejected"}

\* the clock is advanced by one drawn gap: int(dt * 1_000_000) and dt / 3600
AdvancedByGap ==
  \E dt \in Gaps :
    /\ GLOBAL_TIMESTAMP_MICROS' = GLOBAL_TIMESTAMP_MICROS + dt * 3600
    /\ GLOBAL_TIMESTAMP_HOUR' = GLOBAL_TIMESTAMP_HOUR + dt

\* an event is handed to the transport in this step
HandsOver == Len(futures') = Len(futures) + 1

\* C14: in the Poisson variant GLOBAL_TIMESTAMP_MICROS and
\* GLOBAL_TIMESTAMP_HOUR never decrease, every tick advances both by the
\* drawn gap whether it is accepted or rejected, and an event handed to the
\* transport carries an event_timestamp no smaller than that of any event
\* handed over before it.
C14_ClockIsMonotonic ==
  [][ variant = "poisson" =>
        /\ GLOBAL_TIMESTAMP_MICROS' >= GLOBAL_TIMESTAMP_MICROS
        /\ GLOBAL_TIMESTAMP_HOUR' >= GLOBAL_TIMESTAMP_HOUR
        /\ PoissonTick => AdvancedByGap
        /\ HandsOver =>
              \A i \in 1 .. Len(futures) :
                futures[i].event_timestamp <= futures'[Len(futures')].event_timestamp ]_vars

\* two events were handed over with a rejected tick between them
C14_Witness ==
  /\ variant = "poisson"
  /\ dispatched = 2
  /\ ticks = 3
  /\ accepted = 2
  /\ futures[1].event_timestamp < futures[2].event_timestamp
  /\ futures[2].event_timestamp = GLOBAL_TIMESTAMP_MICROS

\* C15: when the loop is left on an external interrupt, every event
\* generate_event has produced has been dispatched and has its completion
\* handler registered.  (A loop left on KeyboardInterrupt has seen no other
\* exception, so each accepted tick has produced an event.)
C15_NoGeneratedEventDiscarded ==
  error = "KeyboardInterrupt" =>
    /\ dispatched = accepted
    /\ \A i \in 1 .. Len(futures) : futures[i].registered

\* C16: the main loop emits one progress line per milestone k * N of
\* published_count, k = 1, 2, ...: the j-th line printed is the line of the
\* j-th milestone, so none is skipped and none is printed twice, however the
\* completion callbacks interleave with the check of lines 329-330 (259-260).
C16_ProgressLinePerMilestone ==
  \A j \in 1 .. Len(stdout_progress) :
    stdout_progress[j] = j * status_every(variant)

\* the countries main has deleted from the active Distribution
DroppedCountries == DOMAIN config.distribution \ DOMAIN distribution

\* C17: in the Poisson variant the country drawn on an accepted tick has a
\* non-empty pool in USERS_BY_COUNTRY, so the lookup of line 203 raises
\* neither KeyError nor IndexError; a country dropped at startup stays in
\* distribution_modulated with weight 0 and is never the country of an event.
C17_ChosenCountryHasUsers ==
  (variant = "poisson" /\ pc # "main") =>
    /\ thinning = "accepted" => error \notin {"KeyError", "IndexError"}
    /\ event_data.kind = "event" =>
          /\ event_data.country_code \in DOMAIN USERS_BY_COUNTRY
          /\ USERS_BY_COUNTRY[event_data.country_code] >= 1
          /\ event_data.country_code \notin DroppedCountries
    /\ \A c \in DroppedCountries :
          c \in DOMAIN distribution_modulated /\ distribution_modulated[c] = 0

\* a country was dropped at startup and an accepted tick has drawn another
C17_Witness ==
  /\ variant = "poisson"
  /\ DroppedCountries # {}
  /\ thinning = "accepted"
  /\ event_data.kind = "event"
  /\ distribution_modulated[event_data.country_code] > 0
  /\ dispatched >= 1

====
